---- MODULE Spec2Model ----
(***************************************************************************)
(* Model of the key-value sync API of server.py: the kv_store table and    *)
(* the three handlers sync_pull, sync_push and sync_delete, each running   *)
(* on its own PostgreSQL connection (one transaction per request).         *)
(*                                                                         *)
(* A transaction's statements are kept in txn[c] and applied to the        *)
(* committed table by its commit.  This is what READ COMMITTED gives for   *)
(* these statements: a row written by a statement stays locked until the   *)
(* writer commits or aborts, any other writer of that key waits, and a     *)
(* reader sees committed rows only.                                        *)
(***************************************************************************)
EXTENDS Integers, Sequences, FiniteSets, TLC

\* ---------------------------------------------------------------- bounds
\* Largest number of entries in the JSON object of a push request.
MaxBatch == 2

\* ------------------------------------------------------------ input sets
\* The keys requests may name, in ascending text order (ORDER BY key).
KeyOrder == <<"", "a", "edhec_a">>

\* The keys the requests to the sync API name; the browser client of the
\* served page names "edhec_a".
Keys == {"", "a"}

\* String values a request may carry.
Values == {"1", "2"}

\* JSON null in a request body, and Python's None.
JsonNull == "<null>"

Clients == {"c1", "c2"}

\* A JSON object is a sequence of <<name, value>> pairs with distinct
\* names, in the order of the body (Python dicts keep insertion order).
RECURSIVE ObjectsOver(_, _)
ObjectsOver(names, n) ==
    IF n = 0 THEN {<<>>}
    ELSE LET shorter == ObjectsOver(names, n - 1)
         IN  shorter \cup
             {Append(o, <<k, v>>) :
                 o \in {s \in shorter : Len(s) = n - 1},
                 k \in names, v \in Values \cup {JsonNull}}

DistinctNames(o) == \A i, j \in 1..Len(o) : o[i][1] = o[j][1] => i = j

Batches == {o \in ObjectsOver(Keys, MaxBatch) : DistinctNames(o)}

\* Request bodies: nothing parseable, or a JSON object.
NoBody == [kind |-> "none", data |-> <<>>]

JsonBody(o) == [kind |-> "json", data |-> o]

PushBodies == {NoBody} \cup {JsonBody(o) : o \in Batches}

DeleteBodies ==
    {NoBody, JsonBody(<<>>)}
        \cup {JsonBody(<< <<"key", k>> >>) : k \in Keys \cup {JsonNull}}
        \cup {JsonBody(<< <<"other", "1">> >>)}

\* ---------------------------------------------------------------- state
VARIABLES
    kv_store,   \* committed rows of table kv_store: records [key, value]
    pc,         \* per client: where its request stands in its handler
    req,        \* per client: its current or last request
    txn,        \* per client: statements of its open transaction
    conn,       \* per client: the connection of its current or last request
    resp,       \* per client: the last response it received
    last_commit,\* history: the client whose commit last changed the table
    general_files, \* rows of table general_files
    pdf_files,     \* rows of table pdf_files
    blob_req,      \* the last request to the file endpoints
    blob_resp,     \* the response to it
    overwrote,     \* history: the last request replaced a stored file by
                   \* another content
    session,       \* per client: the user name its session cookie carries
    auth_req,      \* the last request to login, logout or whoami
    auth_resp,     \* the response to it
    user_exams,    \* rows of table user_exams
    exam_req,      \* the last request to /api/user/exams
    exam_resp,     \* the response to it
    site_announcements, \* rows of table site_announcements
    ann_seq,       \* the next value of the SERIAL id
    ann_req,       \* the last request to /api/announcements
    ann_resp,      \* the response to it
    local_storage, \* the page's localStorage: key -> string, or null
    ss_synced,     \* sessionStorage holds _ss_synced
    ss_enabled,    \* ServerSync.enabled
    pulling,       \* _pulling
    pulls,         \* the promises of ServerSync.init() not settled yet
    net_push,      \* bodies of push requests sent and not yet handled
    sync_reloads,  \* history: location.reload() calls of the boot sequence
    user_reloads,  \* history: page loads asked for by the user
    idb,           \* IndexedDB store "files" of the page: fid -> object
    fnet,          \* file requests sent without waiting, not yet handled
    runs,          \* the calls of bulkSyncToServer: where each stands
    fdb_bulk_synced, \* sessionStorage holds _fdb_bulk_synced
    fdb_calls,     \* history: calls of FDB.put and FDB.del so far
    last_op,       \* history: per fid, the last FDB call that changed it
    bulk_uploads   \* history: per fid, uploads made by bulkSyncToServer

kv_vars == <<kv_store, pc, req, txn, conn, resp, last_commit>>

blob_vars == <<general_files, pdf_files, blob_req, blob_resp, overwrote>>

auth_vars == <<session, auth_req, auth_resp>>

exam_vars == <<user_exams, exam_req, exam_resp>>

ann_vars == <<site_announcements, ann_seq, ann_req, ann_resp>>

client_vars ==
    <<local_storage, ss_synced, ss_enabled, pulling, pulls, net_push,
      sync_reloads, user_reloads>>

file_vars ==
    <<idb, fnet, runs, fdb_bulk_synced, fdb_calls, last_op, bulk_uploads>>

vars ==
    <<kv_vars, blob_vars, auth_vars, exam_vars, ann_vars, client_vars,
      file_vars>>

\* What the handlers of one group of routes leave alone.
kv_frame ==
    <<blob_vars, auth_vars, exam_vars, ann_vars, client_vars,
      file_vars>>

blob_frame ==
    <<kv_vars, auth_vars, exam_vars, ann_vars, client_vars,
      file_vars>>

auth_frame ==
    <<kv_vars, blob_vars, exam_vars, ann_vars, client_vars,
      file_vars>>

exam_frame ==
    <<kv_vars, blob_vars, auth_vars, ann_vars, client_vars,
      file_vars>>

ann_frame ==
    <<kv_vars, blob_vars, auth_vars, exam_vars, client_vars,
      file_vars>>

\* The browser client writes the table through the sync API.
client_frame ==
    <<pc, req, txn, conn, resp, last_commit, blob_vars, auth_vars, exam_vars,
      ann_vars, file_vars>>

\* The patched FDB writes the table general_files through the file API.
file_frame == <<kv_vars, auth_vars, exam_vars, ann_vars, client_vars>>

NoRequest == [op |-> "none", body |-> NoBody]

Request(op, body) == [op |-> op, body |-> body]

\* A response: the handler, the HTTP status, the JSON object of a pull and
\* the "saved" count of a push (empty and 0 where the body has none).
Response(op, status, body, saved) ==
    [op |-> op, status |-> status, body |-> body, saved |-> saved]

NoResponse == Response("none", 0, <<>>, 0)

\* ------------------------------------------------------ Python helpers
\* dict.get(name): the value under name, None when absent.
DictGet(d, name) ==
    IF \E i \in 1..Len(d) : d[i][1] = name
    THEN d[CHOOSE i \in 1..Len(d) : d[i][1] = name][2]
    ELSE JsonNull

\* d[name] = value: replaces in place, or appends.
DictSet(d, name, value) ==
    IF \E i \in 1..Len(d) : d[i][1] = name
    THEN [i \in 1..Len(d) |-> IF d[i][1] = name THEN <<name, value>> ELSE d[i]]
    ELSE Append(d, <<name, value>>)

DictHas(d, name) == \E i \in 1..Len(d) : d[i][1] = name

\* Python truthiness of a string or None.
Falsy(x) == x = JsonNull \/ x = ""

\* request.get_json(silent=True) or {}
GetJsonOrEmpty(body) == IF body.kind = "json" THEN body.data ELSE <<>>

\* ---------------------------------------------------------- SQL helpers
Row(key, value) == [key |-> key, value |-> value]

KeyRank(k) == CHOOSE i \in 1..Len(KeyOrder) : KeyOrder[i] = k

\* Faulty upserts: ON CONFLICT DO NOTHING, an INSERT on a table without
\* the primary key, and a write that replaces the whole table.
UpsertDoNothing(table, key, value) ==
    IF \E r \in table : r.key = key THEN table
    ELSE table \cup {Row(key, value)}

UpsertNoConflict(table, key, value) == table \cup {Row(key, value)}

UpsertTruncating(table, key, value) == {Row(key, value)}

\* INSERT ... ON CONFLICT (key) DO UPDATE SET value = EXCLUDED.value
Upsert(table, key, value) ==
    IF \E r \in table : r.key = key
    THEN {IF r.key = key THEN Row(key, value) ELSE r : r \in table}
    ELSE table \cup {Row(key, value)}

\* Faulty delete: the WHERE clause is missing.
DeleteAllRows(table, key) == {}

\* DELETE FROM kv_store WHERE key = %s
DeleteWhere(table, key) == {r \in table : r.key # key}

\* Faulty selects: ORDER BY key DESC, and only the first row fetched.
RECURSIVE SortedDescending(_)
SortedDescending(table) ==
    IF table = {} THEN <<>>
    ELSE LET r == CHOOSE x \in table :
                      \A y \in table : KeyRank(x.key) >= KeyRank(y.key)
         IN  <<r>> \o SortedDescending(table \ {r})

SelectFirstRow(table) ==
    IF table = {} THEN <<>>
    ELSE << CHOOSE x \in table :
                \A y \in table : KeyRank(x.key) <= KeyRank(y.key) >>

\* SELECT key, value FROM kv_store ORDER BY key
RECURSIVE SelectOrderByKey(_)
SelectOrderByKey(table) ==
    IF table = {} THEN <<>>
    ELSE LET r == CHOOSE x \in table :
                      \A y \in table : KeyRank(x.key) <= KeyRank(y.key)
         IN  <<r>> \o SelectOrderByKey(table \ {r})

\* The statements of a transaction, applied in order by its commit.
UpsertStmt(key, value) == [stmt |-> "upsert", key |-> key, value |-> value]

DeleteStmt(key) == [stmt |-> "delete", key |-> key, value |-> JsonNull]

RECURSIVE ApplyTxn(_, _)
ApplyTxn(table, stmts) ==
    IF stmts = <<>> THEN table
    ELSE LET s == Head(stmts)
             t == IF s.stmt = "upsert" THEN Upsert(table, s.key, s.value)
                  ELSE DeleteWhere(table, s.key)
         IN  ApplyTxn(t, Tail(stmts))

\* Faulty abort: every statement had been committed on its own.
CommittedPerStatement(table, stmts) == ApplyTxn(table, stmts)

\* A transaction that ends without commit leaves the table as it was.
RolledBack(table, stmts) == table

\* Keys whose rows the open transaction of client c has locked.
LockedKeys(c) == {txn[c][i].key : i \in 1..Len(txn[c])}

LockedByOther(c, k) == \E d \in Clients \ {c} : k \in LockedKeys(d)

\* ------------------------------------------------------------ sync_pull
\* result = {}; for row in rows: result[row["key"]] = row["value"]
RECURSIVE RowsToDict(_, _)
RowsToDict(rows, result) ==
    IF rows = <<>> THEN result
    ELSE RowsToDict(Tail(rows), DictSet(result, Head(rows).key, Head(rows).value))

\* The JSON object sync_pull answers with on the committed table.
SyncPullResult(table) == RowsToDict(SelectOrderByKey(table), <<>>)

\* GET /api/sync/pull: one SELECT, close, answer.
SyncPull(c) ==
    /\ pc[c] = "idle"
    /\ req' = [req EXCEPT ![c] = Request("pull", NoBody)]
    /\ conn' = [conn EXCEPT ![c] = "closed"]
    /\ resp' = [resp EXCEPT ![c] = Response("pull", 200, SyncPullResult(kv_store), 0)]
    /\ UNCHANGED <<kv_store, pc, txn, last_commit>>

\* ------------------------------------------------------------ sync_push
\* The entry the loop of sync_push stores next (one statement per entry).
PushData(c) == GetJsonOrEmpty(req[c].body)

NextEntry(c) == PushData(c)[Len(txn[c]) + 1]

\* The whole handler on a table no other request touches meanwhile: every
\* entry is upserted in order and one commit follows the loop; an entry
\* that raises ends the handler before the commit.
PushStatements(data) == [i \in 1..Len(data) |-> UpsertStmt(data[i][1], data[i][2])]

SyncPushResult(table, data) ==
    IF \E i \in 1..Len(data) : data[i][2] = JsonNull
    THEN RolledBack(table, PushStatements(data))
    ELSE ApplyTxn(table, PushStatements(data))

\* POST /api/sync/push arrives: parse the body, open a connection.
SyncPushBegin(c, body) ==
    /\ pc[c] = "idle"
    /\ pc' = [pc EXCEPT ![c] = "push"]
    /\ req' = [req EXCEPT ![c] = Request("push", body)]
    /\ txn' = [txn EXCEPT ![c] = <<>>]
    /\ conn' = [conn EXCEPT ![c] = "open"]
    /\ resp' = [resp EXCEPT ![c] = NoResponse]
    /\ UNCHANGED <<kv_store, last_commit>>

\* cur.execute(INSERT ... ON CONFLICT ...) for the next entry; it waits
\* while another open transaction holds the row of that key.
SyncPushExecute(c) ==
    /\ pc[c] = "push"
    /\ Len(txn[c]) < Len(PushData(c))
    /\ NextEntry(c)[2] # JsonNull
    /\ ~LockedByOther(c, NextEntry(c)[1])
    /\ txn' = [txn EXCEPT ![c] = Append(@, PushStatements(PushData(c))[Len(@) + 1])]
    /\ UNCHANGED <<kv_store, pc, req, conn, resp, last_commit>>

\* The handler ends by an exception of cur.execute: nothing was committed,
\* the server aborts the transaction, Flask answers 500; conn.close() is
\* not reached.
PushAborts(c) ==
    /\ pc' = [pc EXCEPT ![c] = "idle"]
    /\ txn' = [txn EXCEPT ![c] = <<>>]
    /\ conn' = [conn EXCEPT ![c] = "leaked"]
    /\ resp' = [resp EXCEPT ![c] = Response("push", 500, <<>>, 0)]
    /\ kv_store' = RolledBack(kv_store, txn[c])
    /\ UNCHANGED <<req, last_commit>>

\* value TEXT NOT NULL: a null value makes the INSERT raise.
SyncPushRaise(c) ==
    /\ pc[c] = "push"
    /\ Len(txn[c]) < Len(PushData(c))
    /\ NextEntry(c)[2] = JsonNull
    /\ PushAborts(c)

\* Client c waits for a row that d has locked.
WaitsFor(c, d) ==
    /\ pc[c] = "push"
    /\ Len(txn[c]) < Len(PushData(c))
    /\ NextEntry(c)[2] # JsonNull
    /\ NextEntry(c)[1] \in LockedKeys(d)

\* Two transactions wait for each other's rows: PostgreSQL makes the
\* statement of one of them raise (deadlock detected).
SyncPushDeadlock(c) ==
    /\ \E d \in Clients \ {c} : WaitsFor(c, d) /\ WaitsFor(d, c)
    /\ PushAborts(c)

\* Faulty commit: a push without entries is refused as a validation error.
SyncPushCommitRequiringData(c) ==
    /\ pc[c] = "push"
    /\ Len(txn[c]) = Len(PushData(c))
    /\ kv_store' = ApplyTxn(kv_store, txn[c])
    /\ pc' = [pc EXCEPT ![c] = "idle"]
    /\ txn' = [txn EXCEPT ![c] = <<>>]
    /\ conn' = [conn EXCEPT ![c] = "closed"]
    /\ resp' = [resp EXCEPT ![c] =
                  IF PushData(c) = <<>> THEN Response("push", 400, <<>>, 0)
                  ELSE Response("push", 200, <<>>, Len(PushData(c)))]
    /\ last_commit' = IF txn[c] = <<>> THEN last_commit ELSE c
    /\ UNCHANGED req

\* conn.commit() after the loop, close, answer with len(data).
SyncPushCommit(c) ==
    /\ pc[c] = "push"
    /\ Len(txn[c]) = Len(PushData(c))
    /\ kv_store' = ApplyTxn(kv_store, txn[c])
    /\ pc' = [pc EXCEPT ![c] = "idle"]
    /\ txn' = [txn EXCEPT ![c] = <<>>]
    /\ conn' = [conn EXCEPT ![c] = "closed"]
    /\ resp' = [resp EXCEPT ![c] = Response("push", 200, <<>>, Len(PushData(c)))]
    /\ last_commit' = IF txn[c] = <<>> THEN last_commit ELSE c
    /\ UNCHANGED req

\* ---------------------------------------------------------- sync_delete
\* key = data.get("key")
DeleteKey(body) == DictGet(GetJsonOrEmpty(body), "key")

\* Faulty validation: the key is never checked.
KeyAlwaysAccepted(key) == FALSE

\* if not key: return 400
KeyRequired(key) == Falsy(key)

\* POST /api/sync/delete arrives: 400 without touching the database when
\* the key is missing, else a connection is opened.
SyncDeleteBegin(c, body) ==
    /\ pc[c] = "idle"
    /\ req' = [req EXCEPT ![c] = Request("delete", body)]
    /\ IF KeyRequired(DeleteKey(body))
       THEN /\ resp' = [resp EXCEPT ![c] = Response("delete", 400, <<>>, 0)]
            /\ conn' = [conn EXCEPT ![c] = "none"]
            /\ UNCHANGED <<kv_store, pc, txn, last_commit>>
       ELSE /\ pc' = [pc EXCEPT ![c] = "delete"]
            /\ resp' = [resp EXCEPT ![c] = NoResponse]
            /\ conn' = [conn EXCEPT ![c] = "open"]
            /\ txn' = [txn EXCEPT ![c] = <<>>]
            /\ UNCHANGED <<kv_store, last_commit>>

\* cur.execute(DELETE ...): when a committed row matches, the statement
\* waits for the row's lock and then holds it until the commit.  When no
\* row matches, the transaction holds nothing and its commit changes
\* nothing, so the handler's commit, close and answer follow at once.
SyncDeleteExecute(c) ==
    /\ pc[c] = "delete"
    /\ txn[c] = <<>>
    /\ LET key == DeleteKey(req[c].body)
       IN  IF \E r \in kv_store : r.key = key
           THEN /\ ~LockedByOther(c, key)
                /\ txn' = [txn EXCEPT ![c] = <<DeleteStmt(key)>>]
                /\ UNCHANGED <<kv_store, pc, req, conn, resp, last_commit>>
           ELSE /\ pc' = [pc EXCEPT ![c] = "idle"]
                /\ conn' = [conn EXCEPT ![c] = "closed"]
                /\ resp' = [resp EXCEPT ![c] = Response("delete", 200, <<>>, 0)]
                /\ UNCHANGED <<kv_store, req, txn, last_commit>>

\* conn.commit(), close, answer {"ok": true}.
SyncDeleteCommit(c) ==
    /\ pc[c] = "delete"
    /\ txn[c] # <<>>
    /\ kv_store' = ApplyTxn(kv_store, txn[c])
    /\ pc' = [pc EXCEPT ![c] = "idle"]
    /\ txn' = [txn EXCEPT ![c] = <<>>]
    /\ conn' = [conn EXCEPT ![c] = "closed"]
    /\ resp' = [resp EXCEPT ![c] = Response("delete", 200, <<>>, 0)]
    /\ last_commit' = c
    /\ UNCHANGED req

\* ================================================================ files
\* File names are sequences of characters, so that lower() and endswith()
\* are computed on them.
FnLowerPdf == <<"a", ".", "p", "d", "f">>

FnUpperPdf == <<"A", ".", "P", "D", "F">>

FnTxt == <<"b", ".", "t", "x", "t">>

FnNoDot == <<"p", "d", "f">>

FnEmpty == <<>>

\* The identifiers of general files (form field fid, URL segment <fid>).
Fids == {"f1", "f2"}

\* Contents of uploaded files: byte sequences of different lengths.
Contents == {<<7>>, <<8, 9>>}

\* A file part of a multipart request; content_type is "" when the part
\* has none.  NoFile: the request has no part named "file".
FilePart(filename, content_type, data) ==
    [present |-> TRUE, filename |-> filename,
     content_type |-> content_type, data |-> data]

NoFile == [present |-> FALSE, filename |-> FnEmpty, content_type |-> "", data |-> <<>>]

GeneralParts ==
    {FilePart(n, t, d) : n \in {FnLowerPdf, FnTxt}, t \in {"", "text/plain"},
                         d \in Contents}

PdfParts ==
    {FilePart(n, "application/pdf", d) :
        n \in {FnLowerPdf, FnUpperPdf, FnTxt, FnNoDot, FnEmpty}, d \in Contents}

\* The file names a URL /pdfs/<filename> can name.
PdfNames == {FnLowerPdf, FnUpperPdf, FnTxt}

\* str.lower() on the characters the model uses.
LowerChar(ch) ==
    CASE ch = "A" -> "a"
      [] ch = "B" -> "b"
      [] ch = "D" -> "d"
      [] ch = "F" -> "f"
      [] ch = "P" -> "p"
      [] OTHER -> ch

Lower(str) == [i \in 1..Len(str) |-> LowerChar(str[i])]

\* str.endswith(suffix)
EndsWith(str, suffix) ==
    /\ Len(str) >= Len(suffix)
    /\ \A i \in 1..Len(suffix) : str[Len(str) - Len(suffix) + i] = suffix[i]

\* Faulty check: the extension is not looked at.
AnyNameAccepted(filename) == FALSE

\* not f.filename.lower().endswith(".pdf")
NotPdfName(filename) == ~EndsWith(Lower(filename), <<".", "p", "d", "f">>)

\* f.content_type or "application/octet-stream"
MimetypeOf(part) ==
    IF part.content_type = "" THEN "application/octet-stream" ELSE part.content_type

GeneralRow(fid, filename, mimetype, data, size) ==
    [fid |-> fid, filename |-> filename, mimetype |-> mimetype,
     data |-> data, size |-> size]

PdfRow(filename, data) == [filename |-> filename, data |-> data]

\* Faulty upserts of general_files: SET forgets the size column, and an
\* INSERT on a table without the primary key.
UpsertGeneralStaleSize(table, row) ==
    IF \E r \in table : r.fid = row.fid
    THEN {IF r.fid = row.fid
          THEN GeneralRow(row.fid, row.filename, row.mimetype, row.data, r.size)
          ELSE r : r \in table}
    ELSE table \cup {row}

UpsertGeneralNoConflict(table, row) == table \cup {row}

\* INSERT INTO general_files ... ON CONFLICT (fid) DO UPDATE SET filename,
\* mimetype, data, size = EXCLUDED...
UpsertGeneral(table, row) ==
    IF \E r \in table : r.fid = row.fid
    THEN {IF r.fid = row.fid THEN row ELSE r : r \in table}
    ELSE table \cup {row}

\* INSERT INTO pdf_files ... ON CONFLICT (filename) DO UPDATE SET data
UpsertPdf(table, row) ==
    IF \E r \in table : r.filename = row.filename
    THEN {IF r.filename = row.filename THEN row ELSE r : r \in table}
    ELSE table \cup {row}

\* Faulty lookup: the WHERE clause is missing, any row is fetched.
SelectAnyGeneral(table, fid) == table

\* SELECT ... FROM general_files WHERE fid = %s
SelectGeneral(table, fid) == {r \in table : r.fid = fid}

\* SELECT data FROM pdf_files WHERE filename = %s
SelectPdf(table, filename) == {r \in table : r.filename = filename}

\* Faulty delete: the WHERE clause is missing.
DeleteAllGeneral(table, fid) == {}

\* DELETE FROM general_files WHERE fid = %s
DeleteGeneral(table, fid) == {r \in table : r.fid # fid}

\* DELETE FROM pdf_files WHERE filename = %s
DeletePdf(table, filename) == {r \in table : r.filename # filename}

\* cur.fetchone(): a row of the result (None is told by the empty result).
FetchOne(rows) == CHOOSE r \in rows : TRUE

\* A request to a file endpoint: the handler, the fid (form field or URL),
\* the file name of the URL, and the uploaded part.
BlobRequest(op, fid, name, part) ==
    [op |-> op, fid |-> fid, name |-> name, part |-> part]

\* A response of a file endpoint: status, and what its body or headers
\* carry of fid, file name, mimetype, bytes, size and "exists".
BlobResponse(status, fid, filename, mimetype, data, size, exists) ==
    [status |-> status, fid |-> fid, filename |-> filename,
     mimetype |-> mimetype, data |-> data, size |-> size, exists |-> exists]

BlobError(status) == BlobResponse(status, "", FnEmpty, "", <<>>, 0, FALSE)

BlobInit ==
    /\ general_files = {}
    /\ pdf_files = {}
    /\ blob_req = BlobRequest("none", "", FnEmpty, NoFile)
    /\ blob_resp = BlobError(0)
    /\ overwrote = FALSE

\* POST /api/files/upload
upload_general_file(fid, part) ==
    /\ blob_req' = BlobRequest("upload_general_file", fid, FnEmpty, part)
    /\ overwrote' = /\ ~Falsy(fid) /\ part.present
                    /\ \E r \in general_files : r.fid = fid /\ r.data # part.data
    /\ IF Falsy(fid) \/ ~part.present
       THEN /\ blob_resp' = BlobError(400)
            /\ UNCHANGED <<general_files, pdf_files>>
       ELSE /\ general_files' =
                 UpsertGeneral(general_files,
                     GeneralRow(fid, part.filename, MimetypeOf(part),
                                part.data, Len(part.data)))
            /\ blob_resp' = BlobResponse(200, fid, part.filename, "", <<>>,
                                         Len(part.data), FALSE)
            /\ UNCHANGED pdf_files

\* What GET /api/files/<fid> answers on a table: 404, or the bytes with
\* the row's mimetype and file name.
GetGeneralResponse(table, fid) ==
    LET rows == SelectGeneral(table, fid)
    IN  IF rows = {} THEN BlobError(404)
        ELSE BlobResponse(200, "", FetchOne(rows).filename,
                          FetchOne(rows).mimetype, FetchOne(rows).data, 0, FALSE)

\* GET /api/files/<fid>
get_general_file(fid) ==
    /\ blob_req' = BlobRequest("get_general_file", fid, FnEmpty, NoFile)
    /\ blob_resp' = GetGeneralResponse(general_files, fid)
    /\ overwrote' = FALSE
    /\ UNCHANGED <<general_files, pdf_files>>

\* What GET /api/files/<fid>/meta answers on a table: {"exists": false}
\* with 404, or the row's fid, file name, mimetype and size.
GetMetaResponse(table, fid) ==
    LET rows == SelectGeneral(table, fid)
    IN  IF rows = {} THEN BlobError(404)
        ELSE BlobResponse(200, FetchOne(rows).fid, FetchOne(rows).filename,
                          FetchOne(rows).mimetype, <<>>, FetchOne(rows).size, TRUE)

\* GET /api/files/<fid>/meta
get_general_file_meta(fid) ==
    /\ blob_req' = BlobRequest("get_general_file_meta", fid, FnEmpty, NoFile)
    /\ blob_resp' = GetMetaResponse(general_files, fid)
    /\ overwrote' = FALSE
    /\ UNCHANGED <<general_files, pdf_files>>

\* DELETE /api/files/<fid>
delete_general_file(fid) ==
    /\ blob_req' = BlobRequest("delete_general_file", fid, FnEmpty, NoFile)
    /\ general_files' = DeleteGeneral(general_files, fid)
    /\ blob_resp' = IF SelectGeneral(general_files, fid) # {}
                    THEN BlobResponse(200, "", FnEmpty, "", <<>>, 0, FALSE)
                    ELSE BlobError(404)
    /\ overwrote' = FALSE
    /\ UNCHANGED pdf_files

\* POST /pdfs/upload
upload_pdf(part) ==
    /\ blob_req' = BlobRequest("upload_pdf", "", FnEmpty, part)
    /\ overwrote' = /\ part.present /\ ~NotPdfName(part.filename)
                    /\ \E r \in pdf_files :
                          r.filename = part.filename /\ r.data # part.data
    /\ IF ~part.present \/ NotPdfName(part.filename)
       THEN /\ blob_resp' = BlobError(400)
            /\ UNCHANGED <<general_files, pdf_files>>
       ELSE /\ pdf_files' = UpsertPdf(pdf_files, PdfRow(part.filename, part.data))
            /\ blob_resp' = BlobResponse(200, "", part.filename, "", <<>>, 0, FALSE)
            /\ UNCHANGED general_files

\* What GET /pdfs/<filename> answers on a table.
DownloadPdfResponse(table, filename) ==
    LET rows == SelectPdf(table, filename)
    IN  IF rows = {} THEN BlobError(404)
        ELSE BlobResponse(200, "", filename, "application/pdf",
                          FetchOne(rows).data, 0, FALSE)

\* GET /pdfs/<filename>
download_pdf(filename) ==
    /\ blob_req' = BlobRequest("download_pdf", "", filename, NoFile)
    /\ blob_resp' = DownloadPdfResponse(pdf_files, filename)
    /\ overwrote' = FALSE
    /\ UNCHANGED <<general_files, pdf_files>>

\* DELETE /pdfs/<filename>
delete_pdf(filename) ==
    /\ blob_req' = BlobRequest("delete_pdf", "", filename, NoFile)
    /\ pdf_files' = DeletePdf(pdf_files, filename)
    /\ blob_resp' = IF SelectPdf(pdf_files, filename) # {}
                    THEN BlobResponse(200, "", FnEmpty, "", <<>>, 0, FALSE)
                    ELSE BlobError(404)
    /\ overwrote' = FALSE
    /\ UNCHANGED general_files

\* ------------------------------------------------ session-based login
\* The users table: two accounts. "eve" has none.
Usernames == {"admin", "bob", "eve"}

Passwords == {"pw1", "pw2", "bad"}

NoUser == "<none>"

\* The stored hash of a password: an unsalted digest, one per password.
HashPassword(password) == <<"digest", password>>

Users == ("admin" :> HashPassword("pw1")) @@ ("bob" :> HashPassword("pw2"))

\* Faulty check: the password is not compared.
AnyPasswordAccepted(username, password) == username \in DOMAIN Users

\* The supplied password is hashed and compared with the stored hash.
CheckCredentials(username, password) ==
    /\ username \in DOMAIN Users
    /\ Users[username] = HashPassword(password)

AuthRequest(c, op, username, password) ==
    [client |-> c, op |-> op, username |-> username, password |-> password]

AuthResponse(status, username) == [status |-> status, username |-> username]

AuthInit ==
    /\ session = [c \in Clients |-> NoUser]
    /\ auth_req = AuthRequest("none", "none", NoUser, "")
    /\ auth_resp = AuthResponse(0, NoUser)

\* POST login: {message, username} and a session, or 401.
Login(c, username, password) ==
    /\ auth_req' = AuthRequest(c, "login", username, password)
    /\ IF CheckCredentials(username, password)
       THEN /\ session' = [session EXCEPT ![c] = username]
            /\ auth_resp' = AuthResponse(200, username)
       ELSE /\ auth_resp' = AuthResponse(401, NoUser)
            /\ UNCHANGED session

\* POST logout: ends the session of the caller.
Logout(c) ==
    /\ auth_req' = AuthRequest(c, "logout", NoUser, "")
    /\ session' = [session EXCEPT ![c] = NoUser]
    /\ auth_resp' = AuthResponse(200, NoUser)

\* GET whoami: the user name of the caller's session, or null.
WhoAmI(c) ==
    /\ auth_req' = AuthRequest(c, "whoami", NoUser, "")
    /\ auth_resp' = AuthResponse(200, session[c])
    /\ UNCHANGED session

\* ------------------------------------------------ per-user exam dates
\* A query or body field: given with a text, or not given.
Given(text) == [given |-> TRUE, text |-> text]

NotGiven == [given |-> FALSE, text |-> <<>>]

\* Spellings of the email field, as character sequences.
EmailTexts ==
    {<<"a">>, <<"A">>, <<" ", "A">>, <<"b">>, <<"B", " ">>,
     <<" ">>, <<>>}

EmailArgs == {Given(t) : t \in EmailTexts} \cup {NotGiven}

\* JSON values of the exams field: null or a list of one-character strings.
JList(items) == [type |-> "list", items |-> items]

JNull == [type |-> "null", items |-> <<>>]

MaxExams == 2

ExamItems == {"m", "p"}

ExamLists == UNION {[1..n -> ExamItems] : n \in 0..MaxExams}

ExamValues == {JList(l) : l \in ExamLists} \cup {JNull}

ExamArgs ==
    {[given |-> TRUE, value |-> v] : v \in ExamValues}
       \cup {[given |-> FALSE, value |-> JNull]}

\* str.strip(), left part.
RECURSIVE LStrip(_)
LStrip(str) ==
    IF str # <<>> /\ Head(str) = " " THEN LStrip(Tail(str)) ELSE str

\* str.strip(), right part.
RECURSIVE RStrip(_)
RStrip(str) ==
    IF str # <<>> /\ str[Len(str)] = " "
    THEN RStrip(SubSeq(str, 1, Len(str) - 1))
    ELSE str

Strip(str) == RStrip(LStrip(str))

\* Faulty normalisation: .lower() is missing.
StripOnly(arg) == Strip(arg.text)

\* request.args.get("email", "").strip().lower()
NormalizeEmail(arg) == Lower(Strip(arg.text))

\* data.get("exams", [])
ExamsOf(arg) == IF arg.given THEN arg.value ELSE JList(<<>>)

\* json.dumps of the items of a list: "m", "p"
RECURSIVE DumpItems(_)
DumpItems(items) ==
    IF items = <<>> THEN <<>>
    ELSE IF Len(items) = 1 THEN <<"\"", items[1], "\"">>
    ELSE <<"\"", items[1], "\"", ",", " ">> \o DumpItems(Tail(items))

\* json.dumps(exams): the text stored in column exams_data.
JsonDumps(v) ==
    IF v.type = "null" THEN <<"n", "u", "l", "l">>
    ELSE <<"[">> \o DumpItems(v.items) \o <<"]">>

\* json.loads(row["exams_data"]) of a text json.dumps wrote: an item
\* takes five characters of the text, the last one three.
JsonLoads(text) ==
    IF text = <<"n", "u", "l", "l">> THEN JNull
    ELSE JList([i \in 1..((Len(text) + 1) \div 5) |-> text[5 * (i - 1) + 3]])

ExamRow(email, text) == [user_email |-> email, exams_data |-> text]

\* INSERT INTO user_exams ... ON CONFLICT (user_email) DO UPDATE SET
\* exams_data = EXCLUDED.exams_data
UpsertExams(table, row) ==
    IF \E r \in table : r.user_email = row.user_email
    THEN {IF r.user_email = row.user_email THEN row ELSE r : r \in table}
    ELSE table \cup {row}

\* SELECT exams_data FROM user_exams WHERE user_email = %s
SelectExams(table, email) == {r \in table : r.user_email = email}

ExamRequest(op, email, exams) == [op |-> op, email |-> email, exams |-> exams]

ExamResponse(status, exams) == [status |-> status, exams |-> exams]

ExamError(status) == ExamResponse(status, JNull)

ExamInit ==
    /\ user_exams = {}
    /\ exam_req = ExamRequest("none", NotGiven, [given |-> FALSE, value |-> JNull])
    /\ exam_resp = ExamError(0)

\* What GET /api/user/exams answers on a table.
GetExamsResponse(table, arg) ==
    LET email == NormalizeEmail(arg)
        rows  == SelectExams(table, email)
    IN  IF email = <<>> THEN ExamError(400)
        ELSE IF rows # {}
        THEN ExamResponse(200, JsonLoads(FetchOne(rows).exams_data))
        ELSE ExamResponse(200, JList(<<>>))

\* GET /api/user/exams?email=...
get_user_exams(arg) ==
    /\ exam_req' = ExamRequest("get_user_exams", arg, [given |-> FALSE, value |-> JNull])
    /\ exam_resp' = GetExamsResponse(user_exams, arg)
    /\ UNCHANGED user_exams

\* POST /api/user/exams {email, exams}
save_user_exams(arg, exams) ==
    /\ exam_req' = ExamRequest("save_user_exams", arg, exams)
    /\ IF NormalizeEmail(arg) = <<>>
       THEN /\ exam_resp' = ExamError(400)
            /\ UNCHANGED user_exams
       ELSE /\ user_exams' =
                  UpsertExams(user_exams,
                              ExamRow(NormalizeEmail(arg), JsonDumps(ExamsOf(exams))))
            /\ exam_resp' = ExamResponse(200, JNull)

\* ------------------------------------------------ site announcements
\* Most announcements created in a run (the SERIAL id is unbounded).
MaxAnn == 2

\* The ids a request may name: those the sequence can give, and one more.
AnnIds == 1..(MaxAnn + 1)

\* The title and content fields of a body, as character sequences.
AnnTexts == {<<"t">>, <<" ", "u">>, <<" ">>}

AnnArgs == {Given(t) : t \in AnnTexts} \cup {NotGiven}

\* data.get("title", "").strip()
AnnField(arg) == Strip(arg.text)

AnnRow(id, title, content) == [id |-> id, title |-> title, content |-> content]

\* UPDATE site_announcements SET title=%s, content=%s WHERE id=%s
UpdateWhere(table, id, title, content) ==
    {IF r.id = id THEN AnnRow(id, title, content) ELSE r : r \in table}

AnnRequest(op, id, title, content) ==
    [op |-> op, id |-> id, title |-> title, content |-> content]

AnnResponse(status, id) == [status |-> status, id |-> id]

AnnInit ==
    /\ site_announcements = {}
    /\ ann_seq = 1
    /\ ann_req = AnnRequest("none", 0, NotGiven, NotGiven)
    /\ ann_resp = AnnResponse(0, 0)

\* POST /api/announcements
create_announcement(title, content) ==
    /\ ann_seq <= MaxAnn
    /\ ann_req' = AnnRequest("create_announcement", 0, title, content)
    /\ IF AnnField(title) = <<>> \/ AnnField(content) = <<>>
       THEN /\ ann_resp' = AnnResponse(400, 0)
            /\ UNCHANGED <<site_announcements, ann_seq>>
       ELSE /\ site_announcements' = site_announcements \cup
                  {AnnRow(ann_seq, AnnField(title), AnnField(content))}
            /\ ann_seq' = ann_seq + 1
            /\ ann_resp' = AnnResponse(200, ann_seq)

\* PUT /api/announcements/<ann_id>: the rowcount is not looked at.
update_announcement(id, title, content) ==
    /\ ann_req' = AnnRequest("update_announcement", id, title, content)
    /\ IF AnnField(title) = <<>> \/ AnnField(content) = <<>>
       THEN /\ ann_resp' = AnnResponse(400, 0)
            /\ UNCHANGED <<site_announcements, ann_seq>>
       ELSE /\ site_announcements' =
                  UpdateWhere(site_announcements, id, AnnField(title), AnnField(content))
            /\ ann_resp' = AnnResponse(200, 0)
            /\ UNCHANGED ann_seq

\* DELETE /api/announcements/<ann_id>
delete_announcement(id) ==
    /\ ann_req' = AnnRequest("delete_announcement", id, NotGiven, NotGiven)
    /\ site_announcements' = {r \in site_announcements : r.id # id}
    /\ ann_resp' = IF \E r \in site_announcements : r.id = id
                   THEN AnnResponse(200, 0) ELSE AnnResponse(404, 0)
    /\ UNCHANGED ann_seq

\* ------------------------------------------- ServerSync in the browser
\* Promises of init() that one page may have pending, and page loads the
\* user asks for.
MaxPulls == 2

MaxReloads == 1

\* The localStorage keys of the page, in the order of localStorage.key(i).
LocalKeyOrder == <<"edhec_a", "theme">>

LocalKeys == {LocalKeyOrder[i] : i \in 1..Len(LocalKeyOrder)}

\* What the application writes: localStorage.setItem(key, value).
Writes == {<<"edhec_a", "1">>, <<"edhec_a", "2">>, <<"theme", "1">>}

\* Faulty test: the prefix is not looked at.
AnyKeySynced(key) == TRUE

\* key.startsWith(PREFIX), PREFIX = 'edhec_'
StartsWithPrefix(key) == key \in {"edhec_a"}

\* The promise of one init(): that of the boot sequence or of pullAll(),
\* the fetch sent, answered with the pulled object, or failed.
PullPromise(boot, stage, data) == [boot |-> boot, stage |-> stage, data |-> data]

RemoveAt(seq, i) == SubSeq(seq, 1, i - 1) \o SubSeq(seq, i + 1, Len(seq))

\* Faulty pushRaw: the guard on enabled and _pulling is missing.
PushRawUnguarded(key, value, inPull, enabled) ==
    IF StartsWithPrefix(key) THEN {<< <<key, value>> >>} ELSE {}

\* The push bodies the setItem override sends for one write: pushRaw of
\* {key: value} when the key has the prefix, no pull is in progress and
\* sync is enabled.
SetItemPushes(key, value, inPull, enabled) ==
    IF StartsWithPrefix(key) /\ ~inPull /\ enabled
    THEN {<< <<key, value>> >>}
    ELSE {}

\* for(i...) localStorage.setItem(keys[i], data[keys[i]]): the store after
\* the loop of init, and the pushes its writes send.
Hydrated(store, data) ==
    [k \in LocalKeys |-> IF DictHas(data, k) THEN DictGet(data, k) ELSE store[k]]

HydrationPushes(data, inPull, enabled) ==
    UNION {SetItemPushes(data[i][1], data[i][2], inPull, enabled) : i \in 1..Len(data)}

\* pushAll(): one push of every local entry whose key has the prefix, none
\* when there is no such entry; enabled and _pulling are not looked at.
PushAll(store, enabled) ==
    LET Synced(k) == StartsWithPrefix(k) /\ store[k] # JsonNull
        ks == SelectSeq(LocalKeyOrder, Synced)
    IN  IF ks = <<>> THEN {}
        ELSE {[i \in 1..Len(ks) |-> <<ks[i], store[ks[i]]>>]}

\* Faulty test of the boot sequence: the session flag is not looked at
\* (reloads are counted up to three).
ReloadIgnoringFlag(boot, count, flag) == boot /\ count > 0 /\ sync_reloads < 3

\* pulledCount > 0 && !sessionStorage.getItem('_ss_synced'), in the
\* continuation of the boot promise only.
ReloadWanted(boot, count, flag) == boot /\ count > 0 /\ ~flag

ClientInit ==
    /\ local_storage = [k \in LocalKeys |-> JsonNull]
    /\ ss_synced = FALSE
    /\ ss_enabled = TRUE
    /\ pulling = TRUE
    /\ pulls = <<PullPromise(TRUE, "sent", <<>>)>>
    /\ net_push = {}
    /\ sync_reloads = 0
    /\ user_reloads = 0

\* The page is loaded: the script runs ServerSync.init() of the boot
\* sequence; promises of the page before are gone with it.
PageLoad ==
    /\ ss_enabled' = TRUE
    /\ pulling' = TRUE
    /\ pulls' = <<PullPromise(TRUE, "sent", <<>>)>>

\* The application writes localStorage (the overridden setItem).
SetItem(key, value) ==
    /\ local_storage' = [local_storage EXCEPT ![key] = value]
    /\ net_push' = net_push \cup SetItemPushes(key, value, pulling, ss_enabled)
    /\ UNCHANGED <<kv_store, ss_synced, ss_enabled, pulling, pulls,
                   sync_reloads, user_reloads>>

\* localStorage.removeItem(key): not overridden, nothing is sent.
RemoveItem(key) ==
    /\ local_storage[key] # JsonNull
    /\ local_storage' = [local_storage EXCEPT ![key] = JsonNull]
    /\ UNCHANGED <<kv_store, ss_synced, ss_enabled, pulling, pulls, net_push,
                   sync_reloads, user_reloads>>

\* ServerSync.pullAll(): init() once more.
PullAll ==
    /\ Len(pulls) < MaxPulls
    /\ pulling' = TRUE
    /\ pulls' = Append(pulls, PullPromise(FALSE, "sent", <<>>))
    /\ UNCHANGED <<kv_store, local_storage, ss_synced, ss_enabled, net_push,
                   sync_reloads, user_reloads>>

\* The server handles GET /api/sync/pull of promise i, or the fetch fails.
ServePull(i, ok) ==
    /\ pulls[i].stage = "sent"
    /\ pulls' = [pulls EXCEPT ![i] =
                    IF ok THEN PullPromise(@.boot, "answered", SyncPullResult(kv_store))
                    ELSE PullPromise(@.boot, "failed", <<>>)]
    /\ UNCHANGED <<kv_store, local_storage, ss_synced, ss_enabled, pulling,
                   net_push, sync_reloads, user_reloads>>

\* The server handles a POST /api/sync/push of the page.
DeliverPush(body) ==
    /\ body \in net_push
    /\ net_push' = net_push \ {body}
    /\ kv_store' = SyncPushResult(kv_store, body)
    /\ UNCHANGED <<local_storage, ss_synced, ss_enabled, pulling, pulls,
                   sync_reloads, user_reloads>>

\* .then(function(data){...}) of init, followed for the boot promise by
\* the boot sequence: reload once when keys were pulled, pushAll() when
\* none was.
InitThen(i) ==
    LET data  == pulls[i].data
        store == Hydrated(local_storage, data)
        echo  == HydrationPushes(data, pulling, ss_enabled)
    IN  /\ pulls[i].stage = "answered"
        /\ local_storage' = store
        /\ IF ReloadWanted(pulls[i].boot, Len(data), ss_synced)
           THEN /\ ss_synced' = TRUE
                /\ sync_reloads' = sync_reloads + 1
                /\ PageLoad
                /\ net_push' = net_push \cup echo
           ELSE /\ pulling' = FALSE
                /\ ss_enabled' = TRUE
                /\ pulls' = RemoveAt(pulls, i)
                /\ net_push' = net_push \cup echo \cup
                      (IF pulls[i].boot /\ Len(data) = 0
                       THEN PushAll(store, TRUE) ELSE {})
                /\ UNCHANGED <<ss_synced, sync_reloads>>
        /\ UNCHANGED <<kv_store, user_reloads>>

\* .catch(function(e){...}) of init: sync is disabled and 0 is returned,
\* on which the boot sequence calls pushAll().
InitCatch(i) ==
    /\ pulls[i].stage = "failed"
    /\ pulling' = FALSE
    /\ ss_enabled' = FALSE
    /\ pulls' = RemoveAt(pulls, i)
    /\ net_push' = net_push \cup
          (IF pulls[i].boot THEN PushAll(local_storage, FALSE) ELSE {})
    /\ UNCHANGED <<kv_store, local_storage, ss_synced, sync_reloads, user_reloads>>

\* The user loads the page again in the same tab.
UserReload ==
    /\ user_reloads < MaxReloads
    /\ user_reloads' = user_reloads + 1
    /\ PageLoad
    /\ UNCHANGED <<kv_store, local_storage, ss_synced, net_push, sync_reloads>>

\* ================================================== the specifications
BlobNext ==
    \/ \E fid \in Fids \cup {"", JsonNull}, part \in GeneralParts \cup {NoFile} :
          upload_general_file(fid, part) /\ UNCHANGED blob_frame
    \/ \E fid \in Fids : get_general_file(fid) /\ UNCHANGED blob_frame
    \/ \E fid \in Fids : get_general_file_meta(fid) /\ UNCHANGED blob_frame
    \/ \E fid \in Fids : delete_general_file(fid) /\ UNCHANGED blob_frame
    \/ \E part \in PdfParts \cup {NoFile} : upload_pdf(part) /\ UNCHANGED blob_frame
    \/ \E filename \in PdfNames : download_pdf(filename) /\ UNCHANGED blob_frame
    \/ \E filename \in PdfNames : delete_pdf(filename) /\ UNCHANGED blob_frame

AuthNext ==
    \/ \E c \in Clients, username \in Usernames, password \in Passwords :
          Login(c, username, password) /\ UNCHANGED auth_frame
    \/ \E c \in Clients : Logout(c) /\ UNCHANGED auth_frame
    \/ \E c \in Clients : WhoAmI(c) /\ UNCHANGED auth_frame

ExamNext ==
    \/ \E arg \in EmailArgs : get_user_exams(arg) /\ UNCHANGED exam_frame
    \/ \E arg \in EmailArgs, exams \in ExamArgs :
          save_user_exams(arg, exams) /\ UNCHANGED exam_frame

AnnNext ==
    \/ \E title \in AnnArgs, content \in AnnArgs :
          create_announcement(title, content) /\ UNCHANGED ann_frame
    \/ \E id \in AnnIds, title \in AnnArgs, content \in AnnArgs :
          update_announcement(id, title, content) /\ UNCHANGED ann_frame
    \/ \E id \in AnnIds : delete_announcement(id) /\ UNCHANGED ann_frame

ClientNext ==
    \/ \E w \in Writes : SetItem(w[1], w[2]) /\ UNCHANGED client_frame
    \/ \E key \in LocalKeys : RemoveItem(key) /\ UNCHANGED client_frame
    \/ PullAll /\ UNCHANGED client_frame
    \/ \E i \in 1..Len(pulls), ok \in BOOLEAN : ServePull(i, ok) /\ UNCHANGED client_frame
    \/ \E body \in net_push : DeliverPush(body) /\ UNCHANGED client_frame
    \/ \E i \in 1..Len(pulls) : InitThen(i) /\ UNCHANGED client_frame
    \/ \E i \in 1..Len(pulls) : InitCatch(i) /\ UNCHANGED client_frame
    \/ UserReload /\ UNCHANGED client_frame

\* ------------------------------------------------ the patched FDB
\* build_filesync_patch: FDB.put, FDB.get and FDB.del of the page mirror
\* the IndexedDB store "files" to the table general_files, and
\* bulkSyncToServer uploads the local files the server does not hold.

\* Calls of FDB.put and FDB.del, and calls of bulkSyncToServer (the timer
\* of 3 s and the hashchange listener), that one exploration follows.
MaxFdbCalls == 2

MaxRuns == 2

RunIds == 1..MaxRuns

\* The order in which getAllKeys() lists the fids.
FidOrder == <<"f1", "f2">>

\* obj.name || "fichier"
FnFichier == <<"f", "i", "c", "h", "i", "e", "r">>

\* An object of the store: its name, the mimetype its data URL carries
\* and the bytes of the data URL (no bytes: obj.data is falsy).
LocalObj(name, mime, data) ==
    [stored |-> TRUE, name |-> name, mime |-> mime, data |-> data]

\* What the store answers for a fid it does not hold.
NoObj == [stored |-> FALSE, name |-> FnEmpty, mime |-> "", data |-> <<>>]

\* The objects the page puts.
LocalObjs ==
    {LocalObj(FnTxt, "text/plain", <<7>>),
     LocalObj(FnEmpty, "text/plain", <<8, 9>>),
     LocalObj(FnTxt, "text/plain", <<>>)}

\* if(obj && obj.data)
HasData(obj) == obj.stored /\ obj.data # <<>>

\* fd.append("file", blob, obj.name || "fichier"), blob of type mime
PartOf(obj) ==
    FilePart(IF obj.name = FnEmpty THEN FnFichier ELSE obj.name,
             obj.mime, obj.data)

\* A request sent by fetch(...) without await.
FileRequest(op, fid, part) == [op |-> op, fid |-> fid, part |-> part]

\* store.getAllKeys()
AllKeys(store) == SelectSeq(FidOrder, LAMBDA f : store[f].stored)

\* A call of bulkSyncToServer: not made yet, before the fetch of /meta
\* for allKeys[k], before the upload of allKeys[k], or returned.
Run(at, allKeys, k) == [at |-> at, allKeys |-> allKeys, k |-> k]

\* The for loop at index k: the next fid, or the end of the loop.
LoopAt(allKeys, k) ==
    IF k > Len(allKeys) THEN Run("returned", allKeys, k)
    ELSE Run("meta", allKeys, k)

FileInit ==
    /\ idb = [f \in Fids |-> NoObj]
    /\ fnet = {}
    /\ runs = [r \in RunIds |-> Run("timer", <<>>, 0)]
    /\ fdb_bulk_synced = FALSE
    /\ fdb_calls = 0
    /\ last_op = [f \in Fids |-> "none"]
    /\ bulk_uploads = [f \in Fids |-> 0]

\* FDB.put(fid, obj): the local put, then the upload sent without waiting.
FdbPut(fid, obj) ==
    /\ fdb_calls < MaxFdbCalls
    /\ fdb_calls' = fdb_calls + 1
    /\ idb' = [idb EXCEPT ![fid] = obj]
    /\ fnet' = IF HasData(obj)
               THEN fnet \cup {FileRequest("upload", fid, PartOf(obj))}
               ELSE fnet
    /\ last_op' = [last_op EXCEPT ![fid] = "put"]
    /\ UNCHANGED <<runs, fdb_bulk_synced, bulk_uploads>>
    /\ UNCHANGED blob_vars

\* FDB.del(fid): the local delete, then the DELETE sent without waiting.
FdbDel(fid) ==
    /\ fdb_calls < MaxFdbCalls
    /\ fdb_calls' = fdb_calls + 1
    /\ idb' = [idb EXCEPT ![fid] = NoObj]
    /\ fnet' = fnet \cup {FileRequest("delete", fid, NoFile)}
    /\ last_op' = [last_op EXCEPT ![fid] = "del"]
    /\ UNCHANGED <<runs, fdb_bulk_synced, bulk_uploads>>
    /\ UNCHANGED blob_vars

\* FDB.get(fid) of a fid the store does not hold: the file is fetched
\* from the server and, if found, put into the store by the original put.
FdbGet(fid) ==
    /\ ~idb[fid].stored
    /\ get_general_file(fid)
    /\ idb' = IF blob_resp'.status = 200
              THEN [idb EXCEPT ![fid] =
                       LocalObj(blob_resp'.filename, blob_resp'.mimetype,
                                blob_resp'.data)]
              ELSE idb
    /\ last_op' = IF blob_resp'.status = 200
                  THEN [last_op EXCEPT ![fid] = "get"]
                  ELSE last_op
    /\ UNCHANGED <<fnet, runs, fdb_bulk_synced, fdb_calls, bulk_uploads>>

\* The server handles a request that FDB.put or FDB.del sent.
FileDeliver(m) ==
    /\ m \in fnet
    /\ fnet' = fnet \ {m}
    /\ IF m.op = "upload"
       THEN upload_general_file(m.fid, m.part)
       ELSE delete_general_file(m.fid)
    /\ UNCHANGED <<idb, runs, fdb_bulk_synced, fdb_calls, last_op,
                   bulk_uploads>>

\* bulkSyncToServer is called: it returns at once if the flag is set,
\* else it lists the keys of the store and enters the loop.
BulkStart(r) ==
    /\ runs[r].at = "timer"
    /\ runs' = [runs EXCEPT ![r] =
                   IF fdb_bulk_synced THEN Run("returned", <<>>, 0)
                   ELSE LoopAt(AllKeys(idb), 1)]
    /\ fdb_bulk_synced' = (fdb_bulk_synced \/ AllKeys(idb) = <<>>)
    /\ UNCHANGED <<idb, fnet, fdb_calls, last_op, bulk_uploads>>
    /\ UNCHANGED blob_vars

\* await fetch(/api/files/<fid>/meta): a fetch that fails and an answer
\* that is ok both go on with the next fid, else the upload is next.
BulkMeta(r, ok) ==
    /\ runs[r].at = "meta"
    /\ LET fid == runs[r].allKeys[runs[r].k]
           next == LoopAt(runs[r].allKeys, runs[r].k + 1)
       IN  /\ IF ok THEN get_general_file_meta(fid) ELSE UNCHANGED blob_vars
           /\ runs' = [runs EXCEPT ![r] =
                          IF ok /\ blob_resp'.status # 200
                          THEN Run("upload", runs[r].allKeys, runs[r].k)
                          ELSE next]
           /\ fdb_bulk_synced' =
                 (fdb_bulk_synced \/ runs'[r].at = "returned")
    /\ UNCHANGED <<idb, fnet, fdb_calls, last_op, bulk_uploads>>

\* The object is read from the store and, if it has data, uploaded with
\* await fetch(/api/files/upload); then the loop goes on.
BulkUpload(r) ==
    /\ runs[r].at = "upload"
    /\ LET fid == runs[r].allKeys[runs[r].k]
           obj == idb[fid]
       IN  /\ IF HasData(obj)
              THEN /\ upload_general_file(fid, PartOf(obj))
                   /\ bulk_uploads' =
                         [bulk_uploads EXCEPT ![fid] = bulk_uploads[fid] + 1]
              ELSE /\ UNCHANGED blob_vars
                   /\ UNCHANGED bulk_uploads
           /\ runs' = [runs EXCEPT ![r] =
                          LoopAt(runs[r].allKeys, runs[r].k + 1)]
           /\ fdb_bulk_synced' =
                 (fdb_bulk_synced \/ runs'[r].at = "returned")
    /\ UNCHANGED <<idb, fnet, fdb_calls, last_op>>

FileNext ==
    \/ \E fid \in Fids, obj \in LocalObjs : FdbPut(fid, obj) /\ UNCHANGED file_frame
    \/ \E fid \in Fids : FdbDel(fid) /\ UNCHANGED file_frame
    \/ \E fid \in Fids : FdbGet(fid) /\ UNCHANGED file_frame
    \/ \E m \in fnet : FileDeliver(m) /\ UNCHANGED file_frame
    \/ \E r \in RunIds : BulkStart(r) /\ UNCHANGED file_frame
    \/ \E r \in RunIds, ok \in BOOLEAN : BulkMeta(r, ok) /\ UNCHANGED file_frame
    \/ \E r \in RunIds : BulkUpload(r) /\ UNCHANGED file_frame

\* init_db: the tables exist and are empty, the server has served nothing.
Init ==
    /\ kv_store = {}
    /\ pc = [c \in Clients |-> "idle"]
    /\ req = [c \in Clients |-> NoRequest]
    /\ txn = [c \in Clients |-> <<>>]
    /\ conn = [c \in Clients |-> "none"]
    /\ resp = [c \in Clients |-> NoResponse]
    /\ last_commit = "none"
    /\ BlobInit
    /\ AuthInit
    /\ ExamInit
    /\ AnnInit
    /\ ClientInit
    /\ FileInit

Next ==
    \/ \E c \in Clients : SyncPull(c) /\ UNCHANGED kv_frame
    \/ \E c \in Clients, body \in PushBodies : SyncPushBegin(c, body) /\ UNCHANGED kv_frame
    \/ \E c \in Clients : SyncPushExecute(c) /\ UNCHANGED kv_frame
    \/ \E c \in Clients : SyncPushRaise(c) /\ UNCHANGED kv_frame
    \/ \E c \in Clients : SyncPushDeadlock(c) /\ UNCHANGED kv_frame
    \/ \E c \in Clients : SyncPushCommit(c) /\ UNCHANGED kv_frame
    \/ \E c \in Clients, body \in DeleteBodies : SyncDeleteBegin(c, body) /\ UNCHANGED kv_frame
    \/ \E c \in Clients : SyncDeleteExecute(c) /\ UNCHANGED kv_frame
    \/ \E c \in Clients : SyncDeleteCommit(c) /\ UNCHANGED kv_frame

\* The key-value sync API alone.
Spec == Init /\ [][Next]_vars

\* The file endpoints alone.
SpecBlob == Init /\ [][BlobNext]_vars

\* Login, logout and whoami alone.
SpecAuth == Init /\ [][AuthNext]_vars

\* The per-user exam dates alone.
SpecExams == Init /\ [][ExamNext]_vars

\* The site announcements alone.
SpecAnnouncements == Init /\ [][AnnNext]_vars

\* One browser tab running ServerSync against the sync API.
SpecClient == Init /\ [][ClientNext]_vars

\* One browser tab running the patched FDB against the file API.
SpecFiles == Init /\ [][FileNext]_vars

\* The fetch of the boot sequence is answered or fails, and the promise
\* of the boot sequence is settled.
BootServed ==
    \E i \in 1..Len(pulls), ok \in BOOLEAN :
       pulls[i].boot /\ ServePull(i, ok) /\ UNCHANGED client_frame

BootSettled ==
    \E i \in 1..Len(pulls) :
       pulls[i].boot /\ (InitThen(i) \/ InitCatch(i)) /\ UNCHANGED client_frame

SpecClientFair == SpecClient /\ WF_vars(BootServed) /\ WF_vars(BootSettled)

\* ------------------------------------------------------------ properties
RowsOf(table, k) == {r \in table : r.key = k}

StoredKeys(table) == {r.key : r \in table}

\* How often a name occurs in a JSON object.
Occurrences(d, name) == Cardinality({i \in 1..Len(d) : d[i][1] = name})

\* The last request of client c is a push of exactly this object, answered 200.
Pushed(c, data) ==
    /\ pc[c] = "idle"
    /\ req[c] = Request("push", JsonBody(data))
    /\ resp[c].op = "push" /\ resp[c].status = 200

\* The last request of client c is a pull answered with exactly this object.
Pulled(c, body) ==
    /\ pc[c] = "idle"
    /\ resp[c] = Response("pull", 200, body, 0)

\* The step in which the push of client c commits and is answered 200.
PushCommitStep(c) ==
    pc[c] = "push" /\ pc'[c] = "idle" /\ resp'[c].status = 200

\* The step in which the push of client c ends by an exception (500).
PushAbortStep(c) ==
    pc[c] = "push" /\ pc'[c] = "idle" /\ resp'[c].status = 500

\* C1: after any sequence of Push, Delete and Pull operations the table
\* holds at most one row per key, and the object Pull answers with names
\* each stored key exactly once and no other key.
C1_OneRowPerKey ==
    /\ \A k \in Keys :
          /\ Cardinality(RowsOf(kv_store, k)) <= 1
          /\ Occurrences(SyncPullResult(kv_store), k)
                = IF k \in StoredKeys(kv_store) THEN 1 ELSE 0
    /\ \A c \in Clients : \A k \in Keys :
          resp[c].op = "pull" => Occurrences(resp[c].body, k) <= 1

\* A batch that repeats the stored key "a" (a pull saw its old value) and
\* adds key "" was committed; each key has its one row.
C1_Witness ==
    /\ Pushed("c1", << <<"a", "2">>, <<"", "1">> >>)
    /\ Pulled("c2", << <<"a", "1">> >>)
    /\ kv_store = {Row("", "1"), Row("a", "2")}

\* C2: when a Push is answered 200, a Pull on the table it leaves (no
\* write to the key in between) maps every pushed key to its pushed value.
C2_RoundTrip ==
    [][\A c \in Clients :
          PushCommitStep(c) =>
             \A i \in 1..Len(PushData(c)) :
                DictGet(SyncPullResult(kv_store'), PushData(c)[i][1])
                   = PushData(c)[i][2]]_vars

\* Client c1 pushed {a: 2} over a stored {a: 1} and c2's pull returns a -> 2.
C2_Witness ==
    /\ Pushed("c1", << <<"a", "2">> >>)
    /\ Pulled("c2", << <<"a", "2">> >>)
    /\ last_commit = "c1"

\* C3: for every reachable table and every batch, pushing the batch twice
\* in a row leaves the table that pushing it once leaves, and a Pull then
\* names each pushed key exactly once, with its pushed value.
C3_PushIdempotent ==
    \A b \in Batches :
       LET once  == SyncPushResult(kv_store, b)
           twice == SyncPushResult(once, b)
       IN  /\ twice = once
           /\ (\A i \in 1..Len(b) : b[i][2] # JsonNull) =>
                 \A i \in 1..Len(b) :
                    /\ Occurrences(SyncPullResult(twice), b[i][1]) = 1
                    /\ DictGet(SyncPullResult(twice), b[i][1]) = b[i][2]

\* The same two-entry batch was pushed twice in a row (once by each
\* client, the second over the first) and the table holds exactly its rows.
C3_Witness ==
    /\ Pushed("c1", << <<"a", "2">>, <<"", "1">> >>)
    /\ Pushed("c2", << <<"a", "2">>, <<"", "1">> >>)
    /\ kv_store = {Row("", "1"), Row("a", "2")}

\* C4: a Push changes only the pushed keys: when it commits, every key of
\* the batch has exactly one row, holding the new value (replaced if the
\* key was stored, inserted if not), every other key keeps its rows, and
\* no other step of the push handler changes the table.
C4_UpsertFrame ==
    [][\A c \in Clients :
          /\ PushCommitStep(c) =>
                \A k \in Keys :
                   IF DictHas(PushData(c), k)
                   THEN RowsOf(kv_store', k) = {Row(k, DictGet(PushData(c), k))}
                   ELSE RowsOf(kv_store', k) = RowsOf(kv_store, k)
          /\ (pc[c] = "push" \/ pc'[c] = "push") /\ pc'[c] # pc[c]
                /\ ~PushCommitStep(c)
                => kv_store' = kv_store]_vars

\* Stored {"": 1, a: 1} (seen by a pull); a push of {a: 2} replaced the
\* value of "a" and left "" alone.
C4_Witness ==
    /\ Pushed("c1", << <<"a", "2">> >>)
    /\ Pulled("c2", << <<"", "1">>, <<"a", "1">> >>)
    /\ kv_store = {Row("", "1"), Row("a", "2")}
    /\ last_commit = "c1"

\* Client c took a step of sync_delete: its request arrived, its
\* statement ran, or its transaction committed.
DeleteStep(c) ==
    \/ pc[c] = "delete" /\ (pc'[c] # "delete" \/ txn'[c] # txn[c])
    \/ /\ pc[c] = "idle" /\ req'[c].op = "delete"
       /\ (req'[c] # req[c] \/ resp'[c] # resp[c] \/ pc'[c] # pc[c])

\* The step of sync_delete in which client c gets its answer.
DeleteAnswered(c) == DeleteStep(c) /\ pc'[c] = "idle"

\* The last request of client c is Delete(k), answered with this status.
Deleted(c, k, status) ==
    /\ pc[c] = "idle"
    /\ req[c] = Request("delete", JsonBody(<< <<"key", k>> >>))
    /\ resp[c].op = "delete" /\ resp[c].status = status

\* C5: Delete(k) is answered ok (200) for every key k, stored or not;
\* after the answer k is not stored, a Delete of a key that was not
\* stored leaves the table as it was, and k comes back only by the commit
\* of a push that names it.
C5_DeleteRemoves ==
    [][/\ \A c \in Clients :
             DeleteAnswered(c) /\ DeleteKey(req'[c].body) \in Keys =>
                /\ resp'[c].status = 200
                /\ DeleteKey(req'[c].body) \notin StoredKeys(kv_store')
                /\ DeleteKey(req'[c].body) \notin StoredKeys(kv_store)
                      => kv_store' = kv_store
       /\ \A k \in Keys :
             k \notin StoredKeys(kv_store) /\ k \in StoredKeys(kv_store') =>
                \E c \in Clients : PushCommitStep(c) /\ DictHas(PushData(c), k)]_vars

\* C6: Delete(k) removes only k: no step of the delete handler changes the
\* rows of any other key, and when it answers 200 no row of k is left.
C6_DeleteFrame ==
    [][\A c \in Clients :
          DeleteStep(c) =>
             /\ \A k \in Keys :
                   k # DeleteKey(req'[c].body)
                      => RowsOf(kv_store', k) = RowsOf(kv_store, k)
             /\ DeleteAnswered(c) /\ resp'[c].status = 200
                   => RowsOf(kv_store', DeleteKey(req'[c].body)) = {}]_vars

\* {"": 2, a: 1} was stored (seen by a pull); Delete("a") was answered ok
\* and exactly {"": 2} is left.
C6_Witness ==
    /\ Deleted("c1", "a", 200)
    /\ Pulled("c2", << <<"", "2">>, <<"a", "1">> >>)
    /\ kv_store = {Row("", "2")}
    /\ last_commit = "c1"

\* C7: a Delete whose body names no key (no body, an empty object, an
\* object without "key") is answered 400 at once and the table is left
\* as it was.
C7_DeleteNeedsKey ==
    [][\A c \in Clients :
          /\ pc[c] = "idle" /\ req'[c].op = "delete"
          /\ (req'[c] # req[c] \/ resp'[c] # resp[c] \/ pc'[c] # pc[c])
          /\ ~DictHas(GetJsonOrEmpty(req'[c].body), "key")
          => /\ resp'[c] = Response("delete", 400, <<>>, 0)
             /\ pc'[c] = "idle"
             /\ kv_store' = kv_store]_vars

\* A Delete without a body was answered 400 while a row is stored.
C7_Witness ==
    /\ pc["c1"] = "idle"
    /\ req["c1"] = Request("delete", NoBody)
    /\ resp["c1"] = Response("delete", 400, <<>>, 0)
    /\ kv_store = {Row("a", "1")}

\* The names of a JSON object ascend in key order.
Ascending(d) ==
    \A i, j \in 1..Len(d) : i < j => KeyRank(d[i][1]) < KeyRank(d[j][1])

\* Client c took the step of sync_pull.
PullStep(c) ==
    /\ pc[c] = "idle" /\ req'[c].op = "pull"
    /\ (req'[c] # req[c] \/ resp'[c] # resp[c])

\* C8: Pull answers 200 with exactly the stored rows, one name per stored
\* key with its current value, in ascending key order, and leaves the
\* table as it was.
C8_PullWholeMapping ==
    [][\A c \in Clients :
          PullStep(c) =>
             /\ resp'[c].status = 200
             /\ {Row(resp'[c].body[i][1], resp'[c].body[i][2]) :
                    i \in 1..Len(resp'[c].body)} = kv_store
             /\ Len(resp'[c].body) = Cardinality(kv_store)
             /\ Ascending(resp'[c].body)
             /\ kv_store' = kv_store]_vars

\* A pull returned both stored rows, "" before "a".
C8_Witness ==
    /\ Pulled("c1", << <<"", "2">>, <<"a", "1">> >>)
    /\ kv_store = {Row("", "2"), Row("a", "1")}

\* C9 as stated: when a later entry of a batch fails, the entries the loop
\* stored before it are in the table and a Pull shows them.
C9_PartialBatchStored ==
    [][\A c \in Clients :
          PushAbortStep(c) =>
             \A i \in 1..Len(txn[c]) :
                DictGet(SyncPullResult(kv_store'), txn[c][i].key) = txn[c][i].value]_vars

\* C9 amended: the batch is committed by the one commit after the loop.
\* When an entry fails, the table is left as it was before the request, so
\* none of the entries stored before it is visible; the table changes only
\* by the commit of a transaction that ran all its statements.
C9_BatchAllOrNothing ==
    [][/\ \A c \in Clients :
             PushAbortStep(c) => kv_store' = kv_store /\ txn'[c] = <<>>
       /\ kv_store' # kv_store =>
             \E c \in Clients :
                \/ PushCommitStep(c) /\ Len(txn[c]) = Len(PushData(c))
                \/ DeleteAnswered(c) /\ txn[c] # <<>>]_vars

\* The push of {a: 1, "": null} was answered 500 after its first entry
\* had been executed, and "a" is not stored.
C9_Witness ==
    /\ pc["c1"] = "idle"
    /\ req["c1"] = Request("push", JsonBody(<< <<"a", "1">>, <<"", JsonNull>> >>))
    /\ resp["c1"] = Response("push", 500, <<>>, 0)
    /\ kv_store = {}
    /\ last_commit = "none"

\* C10: when the pushes of two clients write the same key, the table holds
\* exactly one row for it, with the value of the push that committed last:
\* as long as client c is the last to have committed and its last request
\* is that push, each key of its batch has one row, holding its value.
C10_LastCommitWins ==
    \A c \in Clients :
       /\ last_commit = c /\ pc[c] = "idle"
       /\ req[c].op = "push" /\ resp[c].status = 200
       => \A k \in Keys :
             DictHas(PushData(c), k) =>
                RowsOf(kv_store, k) = {Row(k, DictGet(PushData(c), k))}

\* Both clients pushed key "a" with different values in batches that take
\* the keys in opposite order; c2 committed last and its value stands.
C10_Witness ==
    /\ Pushed("c1", << <<"a", "1">>, <<"", "1">> >>)
    /\ Pushed("c2", << <<"", "2">>, <<"a", "2">> >>)
    /\ last_commit = "c2"
    /\ kv_store = {Row("", "2"), Row("a", "2")}

\* C11: a Push answered 200 reports saved = the number of entries of the
\* request object, and exactly that many keys of the batch are then stored
\* with their pushed values.
C11_SavedCount ==
    [][\A c \in Clients :
          PushCommitStep(c) =>
             /\ resp'[c] = Response("push", 200, <<>>, Len(PushData(c)))
             /\ Cardinality({k \in Keys :
                    /\ DictHas(PushData(c), k)
                    /\ RowsOf(kv_store', k) = {Row(k, DictGet(PushData(c), k))}})
                   = resp'[c].saved]_vars

\* A push of two entries was answered saved = 2 and both rows are stored.
C11_Witness ==
    /\ Pushed("c1", << <<"a", "1">>, <<"", "2">> >>)
    /\ resp["c1"].saved = 2
    /\ kv_store = {Row("", "2"), Row("a", "1")}
    /\ last_commit = "c1"

\* ------------------------------------------------ properties of files
\* The step answers an upload to /api/files/upload with 200.
GeneralUploadStep ==
    blob_req'.op = "upload_general_file" /\ blob_resp'.status = 200

\* The step answers an upload to /pdfs/upload with 200.
PdfUploadStep == blob_req'.op = "upload_pdf" /\ blob_resp'.status = 200

\* C12: after an accepted Upload(id, fileB), whatever was stored under id
\* before, exactly one blob is stored under id and Get(id) returns fileB's
\* bytes, mimetype and file name (for a PDF: fileB's bytes under its file
\* name, as application/pdf).
C12_UploadOverwrites ==
    [][/\ GeneralUploadStep =>
             /\ Cardinality(SelectGeneral(general_files', blob_req'.fid)) = 1
             /\ GetGeneralResponse(general_files', blob_req'.fid)
                   = BlobResponse(200, "", blob_req'.part.filename,
                                  MimetypeOf(blob_req'.part),
                                  blob_req'.part.data, 0, FALSE)
       /\ PdfUploadStep =>
             /\ Cardinality(SelectPdf(pdf_files', blob_req'.part.filename)) = 1
             /\ DownloadPdfResponse(pdf_files', blob_req'.part.filename)
                   = BlobResponse(200, "", blob_req'.part.filename,
                                  "application/pdf", blob_req'.part.data,
                                  0, FALSE)]_vars

\* An upload under f1 has just replaced a stored file of another content,
\* name and mimetype, and Get(f1) returns the new file.
C12_Witness ==
    /\ overwrote
    /\ blob_req = BlobRequest("upload_general_file", "f1", FnEmpty,
                              FilePart(FnTxt, "text/plain", <<8, 9>>))
    /\ GetGeneralResponse(general_files, "f1")
          = BlobResponse(200, "", FnTxt, "text/plain", <<8, 9>>, 0, FALSE)
    /\ Cardinality(general_files) = 2

\* C13: Get of an identifier with no stored blob answers 404 and
\* GetMetadata of it answers exists: false; no Get, GetMetadata or PDF
\* download changes the stored blobs.
C13_NotFound ==
    [][blob_req'.op \in {"get_general_file", "get_general_file_meta", "download_pdf"} =>
          /\ general_files' = general_files /\ pdf_files' = pdf_files
          /\ (blob_req'.op # "download_pdf"
                /\ \A r \in general_files : r.fid # blob_req'.fid)
                => blob_resp'.status = 404 /\ ~blob_resp'.exists
                      /\ blob_resp'.data = <<>>
          /\ (blob_req'.op = "download_pdf"
                /\ \A r \in pdf_files : r.filename # blob_req'.name)
                => blob_resp'.status = 404 /\ blob_resp'.data = <<>>]_vars

\* GetMetadata(f2) answered exists: false with 404 while f1 is stored.
C13_Witness ==
    /\ blob_req = BlobRequest("get_general_file_meta", "f2", FnEmpty, NoFile)
    /\ blob_resp = BlobError(404)
    /\ \E r \in general_files : r.fid = "f1"

\* C14: Delete(id) answers 404 and leaves the blobs as they were when none
\* is stored under id; otherwise it answers 200, removes that blob (a Get
\* then answers 404) and leaves every other blob as it was.
C14_BlobDelete ==
    [][/\ blob_req'.op = "delete_general_file" =>
             /\ pdf_files' = pdf_files
             /\ IF \E r \in general_files : r.fid = blob_req'.fid
                THEN /\ blob_resp'.status = 200
                     /\ general_files' =
                           {r \in general_files : r.fid # blob_req'.fid}
                     /\ GetGeneralResponse(general_files', blob_req'.fid)
                           = BlobError(404)
                ELSE blob_resp'.status = 404 /\ general_files' = general_files
       /\ blob_req'.op = "delete_pdf" =>
             /\ general_files' = general_files
             /\ IF \E r \in pdf_files : r.filename = blob_req'.name
                THEN /\ blob_resp'.status = 200
                     /\ pdf_files' =
                           {r \in pdf_files : r.filename # blob_req'.name}
                     /\ DownloadPdfResponse(pdf_files', blob_req'.name)
                           = BlobError(404)
                ELSE blob_resp'.status = 404 /\ pdf_files' = pdf_files]_vars

\* Delete(f1) was answered 200; f1 is gone and f2 is still stored.
C14_Witness ==
    /\ blob_req = BlobRequest("delete_general_file", "f1", FnEmpty, NoFile)
    /\ blob_resp.status = 200
    /\ {r.fid : r \in general_files} = {"f2"}
    /\ pdf_files # {}

\* C15: /pdfs/upload answers 400 and stores nothing when the request has
\* no file part or the file name does not end in .pdf (b.txt, pdf, the
\* empty name), and stores a.pdf and A.PDF; /api/files/upload stores a file
\* of any name when a fid and a file part are given.
C15_PdfExtension ==
    [][/\ blob_req'.op = "upload_pdf" =>
             IF /\ blob_req'.part.present
                /\ blob_req'.part.filename \in {FnLowerPdf, FnUpperPdf}
             THEN /\ blob_resp'.status = 200
                  /\ PdfRow(blob_req'.part.filename, blob_req'.part.data)
                        \in pdf_files'
             ELSE /\ blob_resp'.status = 400
                  /\ pdf_files' = pdf_files /\ general_files' = general_files
       /\ (blob_req'.op = "upload_general_file"
             /\ blob_req'.fid \in Fids /\ blob_req'.part.present) =>
             /\ blob_resp'.status = 200
             /\ \E r \in general_files' :
                   r.fid = blob_req'.fid /\ r.filename = blob_req'.part.filename]_vars

\* b.txt was refused by /pdfs/upload with 400 while /api/files/upload has
\* stored a file named b.txt.
C15_Witness ==
    /\ blob_req = BlobRequest("upload_pdf", "", FnEmpty,
                              FilePart(FnTxt, "application/pdf", <<7>>))
    /\ blob_resp = BlobError(400)
    /\ \E r \in general_files : r.filename = FnTxt
    /\ \A r \in pdf_files : r.filename # FnTxt

\* C16: for every stored general file, GetMetadata reports exists: true
\* with the file name and mimetype that Get delivers and with size = the
\* number of stored bytes; an accepted upload answers with that name and
\* size.
C16_MetadataAgrees ==
    /\ \A r \in general_files :
          LET meta == GetMetaResponse(general_files, r.fid)
              got  == GetGeneralResponse(general_files, r.fid)
          IN  /\ meta.status = 200 /\ meta.exists /\ meta.fid = r.fid
              /\ got.status = 200
              /\ meta.filename = got.filename
              /\ meta.mimetype = got.mimetype
              /\ meta.size = Len(got.data)
    /\ (blob_req.op = "upload_general_file" /\ blob_resp.status = 200) =>
          LET meta == GetMetaResponse(general_files, blob_req.fid)
          IN  /\ meta.exists
              /\ meta.filename = blob_resp.filename
              /\ meta.size = blob_resp.size
              /\ meta.size = Len(blob_req.part.data)

\* After a one-byte file under f1 was replaced by a two-byte file,
\* GetMetadata(f1) reports size 2.
C16_Witness ==
    /\ overwrote
    /\ blob_req.op = "upload_general_file" /\ blob_req.fid = "f1"
    /\ blob_req.part.data = <<8, 9>>
    /\ GetMetaResponse(general_files, "f1").size = 2
    /\ \E r \in general_files : r.fid = "f2" /\ r.size = 1

\* ------------------------------------------------ properties of login
\* The user name and password pairs of the two accounts.
ValidLogins == {<<"admin", "pw1">>, <<"bob", "pw2">>}

\* C17: a Login with bad credentials answers 401 and leaves every session
\* as it was; a Login with valid credentials answers 200 and sets the
\* caller's session to that user; whoami answers the user of the caller's
\* session; a session changes only by a valid Login or a Logout of its
\* own client.
C17_LoginSession ==
    [][LET c == auth_req'.client
       IN  /\ auth_req'.op = "login" =>
                 IF <<auth_req'.username, auth_req'.password>> \in ValidLogins
                 THEN /\ auth_resp' = AuthResponse(200, auth_req'.username)
                      /\ session' = [session EXCEPT ![c] = auth_req'.username]
                 ELSE /\ auth_resp'.status = 401
                      /\ session' = session
           /\ auth_req'.op = "whoami" =>
                 /\ auth_resp' = AuthResponse(200, session[c])
                 /\ session' = session
           /\ auth_req'.op = "logout" =>
                 session' = [session EXCEPT ![c] = NoUser]
           /\ \A d \in Clients :
                 session'[d] # session[d] =>
                    /\ d = c
                    /\ \/ auth_req'.op = "logout"
                       \/ /\ auth_req'.op = "login"
                          /\ auth_resp'.status = 200]_vars

\* whoami answered admin to c1 while c2, which is not logged in, holds no
\* session.
C17_Witness ==
    /\ auth_req = AuthRequest("c1", "whoami", NoUser, "")
    /\ auth_resp = AuthResponse(200, "admin")
    /\ session = [c \in Clients |-> IF c = "c1" THEN "admin" ELSE NoUser]

\* ------------------------------------------- properties of connections
\* C18: no connection opened by a request remains open after the request
\* has ended (the handler has closed it on every path, the path where a
\* statement raises included).
C18_ConnectionReleased ==
    \A c \in Clients : pc[c] = "idle" => conn[c] \in {"none", "closed"}

SpellingsOfA == {<<"a">>, <<"A">>, <<" ", "A">>}

SpellingsOfB == {<<"b">>, <<"B", " ">>}

BlankEmails == {<<" ">>, <<>>}

SameEmail(s, t) ==
    \/ s \in SpellingsOfA /\ t \in SpellingsOfA
    \/ s \in SpellingsOfB /\ t \in SpellingsOfB

\* C20: a save with a missing or blank email answers 400 and writes
\* nothing; after any other save, a get for every spelling of that email
\* (case, surrounding blanks) answers the saved list and a get for a
\* different email answers what it answered before; a get writes nothing,
\* answers 400 for a missing or blank email and the empty list for an email
\* with no row.
C20_ExamsByEmail ==
    [][LET e == exam_req'.email
       IN  /\ exam_req'.op = "save_user_exams" =>
                 IF ~e.given \/ e.text \in BlankEmails
                 THEN exam_resp'.status = 400 /\ user_exams' = user_exams
                 ELSE /\ exam_resp'.status = 200
                      /\ \A s \in EmailTexts \ BlankEmails :
                            GetExamsResponse(user_exams', Given(s)) =
                               IF SameEmail(s, e.text)
                               THEN ExamResponse(200,
                                       IF exam_req'.exams.given
                                       THEN exam_req'.exams.value
                                       ELSE JList(<<>>))
                               ELSE GetExamsResponse(user_exams, Given(s))
           /\ exam_req'.op = "get_user_exams" =>
                 /\ user_exams' = user_exams
                 /\ (~e.given \/ e.text \in BlankEmails) =>
                       exam_resp'.status = 400
                 /\ (/\ e.given /\ e.text \notin BlankEmails
                     /\ \A r \in user_exams : ~SameEmail(r.user_email, e.text))
                       => exam_resp' = ExamResponse(200, JList(<<>>))]_vars

\* A get for " A" answered the two exams saved for a while another list is
\* stored for b.
C20_Witness ==
    /\ exam_req.op = "get_user_exams" /\ exam_req.email = Given(<<" ", "A">>)
    /\ exam_resp = ExamResponse(200, JList(<<"m", "p">>))
    /\ \E r \in user_exams : r.user_email = <<"b">> /\ r.exams_data = <<"[", "]">>
    /\ Cardinality(user_exams) = 2

\* ------------------------------------- further properties of the sync API
\* C26: every key Push can store can be removed by Delete: a Delete of a
\* key that is stored when the handler answers is answered 200 and leaves
\* no row of the key, so that the next Pull does not name it.
C26_StoredKeyDeletable ==
    [][\A c \in Clients :
          (DeleteAnswered(c) /\ DeleteKey(req'[c].body) \in StoredKeys(kv_store)) =>
             /\ resp'[c].status = 200
             /\ DeleteKey(req'[c].body) \notin StoredKeys(kv_store')
             /\ ~DictHas(SyncPullResult(kv_store'), DeleteKey(req'[c].body))]_vars

\* C27: a Push whose body is missing or not JSON, or is the empty object,
\* is answered 200 with saved = 0 and leaves the table as it was; it never
\* ends otherwise.
C27_EmptyPushAccepted ==
    [][\A c \in Clients :
          (/\ pc[c] = "push" /\ pc'[c] = "idle"
           /\ req[c].body \in {NoBody, JsonBody(<<>>)}) =>
             /\ resp'[c] = Response("push", 200, <<>>, 0)
             /\ kv_store' = kv_store]_vars

\* The push of c1 without a body was answered ok with saved 0 on a table
\* that holds a row, after c2 pushed the empty object.
C27_Witness ==
    /\ pc["c1"] = "idle"
    /\ req["c1"] = Request("push", NoBody)
    /\ resp["c1"] = Response("push", 200, <<>>, 0)
    /\ Pushed("c2", <<>>)
    /\ kv_store = {Row("a", "1")}

\* ---------------------------------------- properties of announcements
\* C30: a PUT on an id that has no row leaves the announcements as they
\* were and is answered 404, as a DELETE on a missing id is; a PUT or POST
\* with a missing or blank title or content is answered 400 and writes
\* nothing.
C30_UpdateReportsMissing ==
    [][LET blank == \/ ~ann_req'.title.given \/ ann_req'.title.text = <<" ">>
                    \/ ~ann_req'.content.given \/ ann_req'.content.text = <<" ">>
           missing == \A r \in site_announcements : r.id # ann_req'.id
       IN  /\ (ann_req'.op \in {"create_announcement", "update_announcement"}
                 /\ blank) =>
                 /\ ann_resp'.status = 400
                 /\ site_announcements' = site_announcements
           /\ (ann_req'.op = "update_announcement" /\ ~blank /\ missing) =>
                 /\ site_announcements' = site_announcements
                 /\ ann_resp'.status = 404
           /\ (ann_req'.op = "delete_announcement" /\ missing) =>
                 /\ site_announcements' = site_announcements
                 /\ ann_resp'.status = 404]_vars

\* ------------------------------------------ properties of ServerSync
\* The value the server holds for a key (null when it holds none).
ServerValue(k) == DictGet(SyncPullResult(kv_store), k)

\* The application writes value under key and the value changes (a write
\* of the value already stored changes nothing the model can tell).
WriteStep(key, value) ==
    /\ local_storage' = [local_storage EXCEPT ![key] = value]
    /\ local_storage' # local_storage
    /\ pulls' = pulls

\* C21: with sync enabled, once every request the page has sent is handled
\* and no pull is pending, the server holds for each edhec_ key what
\* localStorage holds (nothing for a key removed locally).
C21_ServerMirrorsLocal ==
    (ss_enabled /\ net_push = {} /\ pulls = <<>>) =>
       ServerValue("edhec_a") = local_storage["edhec_a"]

C23_OfflineSendsNothing ==
    [][~ss_enabled' => net_push' \subseteq net_push]_vars

\* C24: while a pull is pending, no step but the one that settles a pull
\* sends a push, and the step that writes a pulled object into
\* localStorage sends no push of an entry of that object.
C24_NoPushWhilePulling ==
    [][pulls # <<>> =>
          /\ (\A i \in 1..Len(pulls) : ~InitThen(i) /\ ~InitCatch(i))
                => net_push' \subseteq net_push
          /\ \A i \in 1..Len(pulls) :
                InitThen(i) =>
                   \A j \in 1..Len(pulls[i].data) :
                      << pulls[i].data[j] >> \in net_push'
                         => << pulls[i].data[j] >> \in net_push]_vars

\* No promise of the boot sequence is pending: the page has booted.
Booted == \A i \in 1..Len(pulls) : ~pulls[i].boot

\* C25: the boot sequence reloads at most once per session; it reloads
\* only when the boot pull has brought at least one key and _ss_synced is
\* not set, and sets it; and from some boot on the page stays booted.
C25_ReloadOnce ==
    /\ [](sync_reloads <= 1)
    /\ [][sync_reloads' # sync_reloads =>
             /\ \E i \in 1..Len(pulls) :
                   /\ pulls[i].boot /\ pulls[i].stage = "answered"
                   /\ Len(pulls[i].data) > 0
             /\ ~ss_synced /\ ss_synced'
             /\ sync_reloads' = sync_reloads + 1]_vars
    /\ <>[]Booted

\* After the one reload the page has booted on a pull that brought a key,
\* with the session flag set.
C25_Witness ==
    /\ sync_reloads = 1 /\ ss_synced
    /\ Booted /\ pulls = <<>>
    /\ local_storage["edhec_a"] = "2"
    /\ kv_store = {Row("edhec_a", "2")}

\* A request for fid sent by FDB.put or FDB.del and not handled yet.
InFlight(fid) == \E m \in fnet : m.fid = fid

\* C28: when the last FDB call on a fid was FDB.del, after an FDB.put of
\* that fid, and every request sent for the fid has been handled, the
\* server holds no file under the fid.
C28_DeleteWins ==
    \A fid \in Fids :
       (last_op[fid] = "del" /\ ~InFlight(fid))
          => SelectGeneral(general_files, fid) = {}

\* C29: bulkSyncToServer uploads each fid at most once in a session,
\* however its calls overlap (a second upload of a fid would be one of a
\* fid the server already holds).
C29_BulkUploadsOnce == \A fid \in Fids : bulk_uploads[fid] <= 1

====
